---- MODULE Spec2Model ----
(***************************************************************************)
(* Model of the infix calculator (src/src/lib.rs, src/src/main.rs).        *)
(*                                                                         *)
(* RPNQueue::from_infix_string scans an infix string character by          *)
(* character (shunting-yard) and RPNQueue::calculate reduces the produced  *)
(* token vector on a stack of f64 values.                                  *)
(*                                                                         *)
(* A character is a one-character string, a Rust String (a token, the      *)
(* literal buffer, the input) is a sequence of characters.                 *)
(*                                                                         *)
(* An f64 is modelled by a record [k, s, n, d]: k = "fin" is the signed    *)
(* rational s * n / d in lowest terms (with a signed zero), k = "inf" the  *)
(* signed infinity, k = "nan" a NaN.  The arithmetic follows IEEE-754 for  *)
(* signs, zeros, infinities and NaN; rounding and overflow of finite       *)
(* values are not modelled (finite results are exact).                     *)
(***************************************************************************)
EXTENDS Integers, Sequences, FiniteSets

VARIABLES
    entry,    \* "infix": from_infix_string then calculate; "rpn": calculate alone
    input,    \* from_infix_string's input: &str
    pos,      \* index of the next character of input.chars()
    output,   \* from_infix_string's output.0
    stack,    \* from_infix_string's operator stack
    buffer,   \* from_infix_string's literal buffer
    rpn,      \* the Result<RPNQueue, String> that calculate is called on
    numbers,  \* calculate's operand stack
    idx,      \* index of the next token of self.0.iter()
    result,   \* the Result<f64, String> of calculate
    pc,       \* "scan": in from_infix_string, "calc": in calculate, "done";
              \* "read": at the top of main's loop; "compute": at a direct
              \* call of compute_result
    line,     \* main: the text the last read_line appended to its buffer
    printed,  \* main: what it has printed since its last prompt
    seen      \* one earlier call of from_infix_string: its input and outcome

\* In main the variable input is main's line buffer, which it passes to
\* from_infix_string.  At a direct call of compute_result (entry = "compute")
\* input is the argument op and numbers holds the arguments first and second.

host == <<line, printed, seen>>

vars ==
    <<entry, input, pos, output, stack, buffer, rpn, numbers, idx, result, pc,
      line, printed, seen>>

(***************************************************************************)
(* Bounds of the explored inputs.                                          *)
(***************************************************************************)
MaxLen == 4

MaxTokens == 3

MaxLine == 2

(***************************************************************************)
(* Characters.                                                             *)
(***************************************************************************)
DigitChars == <<"0", "1", "2", "3", "4", "5", "6", "7", "8", "9">>

IsDigit(ch) == \E i \in 1..10 : DigitChars[i] = ch

DigitVal(ch) == (CHOOSE i \in 1..10 : DigitChars[i] = ch) - 1

\* char::is_whitespace, on the whitespace characters the inputs use
IsWhitespace(ch) == ch \in {" ", "\t", "\n"}

IsOperatorChar(ch) == ch \in {"+", "-", "*", "/"}

\* mutant: the literal arm's range also takes letters
IsLiteralChar_TakesLetters(ch) == ch = "." \/ IsDigit(ch) \/ ch = "x"

IsLiteralChar(ch) == ch = "." \/ IsDigit(ch)

CharToString(ch) == <<ch>>

OperatorTokens == {<<"+">>, <<"-">>, <<"*">>, <<"/">>}

(***************************************************************************)
(* f64 values.                                                             *)
(***************************************************************************)
Abs(i) == IF i < 0 THEN -i ELSE i

RECURSIVE GCD(_, _)
GCD(a, b) == IF b = 0 THEN a ELSE GCD(b, a % b)

Fin(s, n, d) ==
    LET g == GCD(n, d)
    IN  IF n = 0 THEN [k |-> "fin", s |-> s, n |-> 0, d |-> 1]
        ELSE [k |-> "fin", s |-> s, n |-> n \div g, d |-> d \div g]

Inf(s) == [k |-> "inf", s |-> s, n |-> 0, d |-> 1]

NaN == [k |-> "nan", s |-> 1, n |-> 0, d |-> 1]

IsZero(x) == x.k = "fin" /\ x.n = 0

Neg(x) == IF x.k = "nan" THEN x ELSE [x EXCEPT !.s = -x.s]

FAdd(x, y) ==
    IF x.k = "nan" \/ y.k = "nan" THEN NaN
    ELSE IF x.k = "inf" /\ y.k = "inf"
         THEN IF x.s = y.s THEN x ELSE NaN
    ELSE IF x.k = "inf" THEN x
    ELSE IF y.k = "inf" THEN y
    ELSE LET num == x.s * x.n * y.d + y.s * y.n * x.d
         IN  IF num = 0
             THEN Fin(IF x.s = -1 /\ y.s = -1 THEN -1 ELSE 1, 0, 1)
             ELSE Fin(IF num < 0 THEN -1 ELSE 1, Abs(num), x.d * y.d)

FSub(x, y) == FAdd(x, Neg(y))

FMul(x, y) ==
    IF x.k = "nan" \/ y.k = "nan" THEN NaN
    ELSE IF (x.k = "inf" /\ IsZero(y)) \/ (IsZero(x) /\ y.k = "inf") THEN NaN
    ELSE IF x.k = "inf" \/ y.k = "inf" THEN Inf(x.s * y.s)
    ELSE Fin(x.s * y.s, x.n * y.n, x.d * y.d)

FDiv(x, y) ==
    IF x.k = "nan" \/ y.k = "nan" THEN NaN
    ELSE IF x.k = "inf" /\ y.k = "inf" THEN NaN
    ELSE IF x.k = "inf" THEN Inf(x.s * y.s)
    ELSE IF y.k = "inf" THEN Fin(x.s * y.s, 0, 1)
    ELSE IF IsZero(y)
         THEN IF IsZero(x) THEN NaN ELSE Inf(x.s * y.s)
    ELSE Fin(x.s * y.s, x.n * y.d, x.d * y.n)

(***************************************************************************)
(* Results: Result<f64, String> and Result<RPNQueue, String>.  An error    *)
(* message is the sequence of its parts (the format string's text and the  *)
(* formatted argument).                                                    *)
(***************************************************************************)
NoValue == [k |-> "none", s |-> 1, n |-> 0, d |-> 1]

Ok(v) == [ok |-> TRUE, val |-> v, err |-> <<>>]

Err(msg) == [ok |-> FALSE, val |-> NoValue, err |-> msg]

OkQueue(q) == [ok |-> TRUE, queue |-> q, err |-> <<>>]

ErrQueue(msg) == [ok |-> FALSE, queue |-> <<>>, err |-> msg]

NotEnoughInput == <<"not enough input">>

InvalidToken(t) == <<"Invalid token: ", t>>

InvalidOperator(t) == <<"invalid operator: ", t>>

(***************************************************************************)
(* str::parse::<f64> on the tokens the model builds (characters of the     *)
(* scanner's alphabet): a token parses iff it consists of digits with at   *)
(* most one decimal point and at least one digit ("1.", ".5" and "10"      *)
(* parse; ".", "1..2" and "(" do not).                                     *)
(***************************************************************************)
RECURSIVE CountDots(_)
CountDots(t) ==
    IF t = <<>> THEN 0
    ELSE (IF Head(t) = "." THEN 1 ELSE 0) + CountDots(Tail(t))

RECURSIVE CountDigits(_)
CountDigits(t) ==
    IF t = <<>> THEN 0
    ELSE (IF IsDigit(Head(t)) THEN 1 ELSE 0) + CountDigits(Tail(t))

ParsesAsF64(t) ==
    /\ \A i \in 1..Len(t) : IsLiteralChar(t[i])
    /\ CountDots(t) <= 1
    /\ CountDigits(t) >= 1

\* the decimal digits of t (its decimal point dropped) read as a natural number
RECURSIVE Mantissa(_, _)
Mantissa(t, acc) ==
    IF t = <<>> THEN acc
    ELSE IF Head(t) = "." THEN Mantissa(Tail(t), acc)
    ELSE Mantissa(Tail(t), 10 * acc + DigitVal(Head(t)))

\* 10 ^ (number of digits after the decimal point)
RECURSIVE Scale(_, _)
Scale(t, seenDot) ==
    IF t = <<>> THEN 1
    ELSE IF Head(t) = "." THEN Scale(Tail(t), TRUE)
    ELSE (IF seenDot THEN 10 ELSE 1) * Scale(Tail(t), seenDot)

ParseF64(t) == Fin(1, Mantissa(t, 0), Scale(t, FALSE))

(***************************************************************************)
(* compute_result                                                          *)
(***************************************************************************)
compute_result(first, second, op) ==
    IF op = <<"+">> THEN Ok(FAdd(first, second))
    ELSE IF op = <<"-">> THEN Ok(FSub(first, second))
    ELSE IF op = <<"*">> THEN Ok(FMul(first, second))
    ELSE IF op = <<"/">> THEN Ok(FDiv(first, second))
    ELSE Err(InvalidOperator(op))

(***************************************************************************)
(* RPNQueue::from_infix_string.  The scanner's locals are the record       *)
(* [output, stack, buffer]; a Vec's last element is the end of a sequence. *)
(***************************************************************************)
Last(s) == s[Len(s)]

Front(s) == SubSeq(s, 1, Len(s) - 1)

\* mutant: the operator stack and the literal buffer outlive the call
NewScan_Stale == [output |-> <<>>, stack |-> stack, buffer |-> buffer]

NewScan == [output |-> <<>>, stack |-> <<>>, buffer |-> <<>>]

\* PRECEDENCE.get(t).unwrap_or(&0)
Precedence(t) ==
    IF t = <<"+">> \/ t = <<"-">> THEN 1
    ELSE IF t = <<"*">> \/ t = <<"/">> THEN 2
    ELSE 0

\* if !buffer.is_empty() { output.0.push(buffer); buffer = String::new(); }
FlushBuffer(c) ==
    IF c.buffer # <<>>
    THEN [c EXCEPT !.output = Append(@, c.buffer), !.buffer = <<>>]
    ELSE c

\* mutant: operators of equal precedence are popped as well
TopBindsTighter_OrEqual(stk, tok) ==
    stk # <<>> /\ Precedence(Last(stk)) >= Precedence(tok)

\* the condition of the while loop of the operator arm
TopBindsTighter(stk, tok) ==
    stk # <<>> /\ Precedence(Last(stk)) > Precedence(tok)

RECURSIVE PopTighter(_, _)
PopTighter(c, tok) ==
    IF TopBindsTighter(c.stack, tok)
    THEN PopTighter([c EXCEPT !.output = Append(@, Last(c.stack)),
                              !.stack = Front(@)], tok)
    ELSE c

OnWhitespace(c) == FlushBuffer(c)

OnOperator(c, ch) ==
    LET p == PopTighter(FlushBuffer(c), CharToString(ch))
    IN  [p EXCEPT !.stack = Append(@, CharToString(ch))]

OnOpenParen(c, ch) == [c EXCEPT !.stack = Append(@, CharToString(ch))]

\* mutant: the loop of the ")" arm is missing
PopToOpenParen_NoLoop(c) == c

\* mutant: the loop of the ")" arm does not stop at "("
RECURSIVE PopToOpenParen_PastParen(_)
PopToOpenParen_PastParen(c) ==
    IF c.stack # <<>>
    THEN PopToOpenParen_PastParen([c EXCEPT !.output = Append(@, Last(c.stack)),
                                            !.stack = Front(@)])
    ELSE c

RECURSIVE PopToOpenParen(_)
PopToOpenParen(c) ==
    IF c.stack # <<>> /\ Last(c.stack) # <<"(">>
    THEN PopToOpenParen([c EXCEPT !.output = Append(@, Last(c.stack)),
                                  !.stack = Front(@)])
    ELSE c

\* Vec::pop, its result dropped: nothing happens on an empty stack
PopDiscard(stk) == IF stk = <<>> THEN stk ELSE Front(stk)

OnCloseParen(c) ==
    LET p == PopToOpenParen(FlushBuffer(c))
    IN  [p EXCEPT !.stack = PopDiscard(@)]

OnLiteralChar(c, ch) == [c EXCEPT !.buffer = Append(@, ch)]

IsInvalidChar(ch) ==
    ~ (IsWhitespace(ch) \/ IsOperatorChar(ch) \/ ch = "(" \/ ch = ")"
       \/ IsLiteralChar(ch))

\* one iteration of the for loop on a character that is not rejected
ScanChar(c, ch) ==
    IF IsWhitespace(ch) THEN OnWhitespace(c)
    ELSE IF IsOperatorChar(ch) THEN OnOperator(c, ch)
    ELSE IF ch = "(" THEN OnOpenParen(c, ch)
    ELSE IF ch = ")" THEN OnCloseParen(c)
    ELSE OnLiteralChar(c, ch)

\* mutant: the final drain stops one element early
RECURSIVE DrainStack_LeavesOne(_)
DrainStack_LeavesOne(c) ==
    IF Len(c.stack) > 1
    THEN DrainStack_LeavesOne([c EXCEPT !.output = Append(@, Last(c.stack)),
                                        !.stack = Front(@)])
    ELSE c

\* while !stack.is_empty() { output.0.push(stack.pop().unwrap()); }
RECURSIVE DrainStack(_)
DrainStack(c) ==
    IF c.stack # <<>>
    THEN DrainStack([c EXCEPT !.output = Append(@, Last(c.stack)),
                              !.stack = Front(@)])
    ELSE c

RECURSIVE ScanFrom(_, _, _)
ScanFrom(c, s, i) ==
    IF i > Len(s) THEN OkQueue(DrainStack(c).output)
    ELSE IF IsInvalidChar(s[i]) THEN ErrQueue(InvalidToken(CharToString(s[i])))
    ELSE ScanFrom(ScanChar(c, s[i]), s, i + 1)

from_infix_string(s) == ScanFrom(NewScan, s, 1)

(***************************************************************************)
(* RPNQueue::calculate.  One iteration of its loop yields the operand      *)
(* stack, or the error the ? operator returns.                             *)
(***************************************************************************)
StepOk(nums) == [ok |-> TRUE, numbers |-> nums, err |-> <<>>]

StepErr(msg) == [ok |-> FALSE, numbers |-> <<>>, err |-> msg]

IsOperatorToken(x) == x \in OperatorTokens

\* mutant: the operands are handed over in pop order
OnOperatorToken_PopOrder(nums, x) ==
    IF nums = <<>> THEN StepErr(NotEnoughInput)
    ELSE LET second == Last(nums)
             rest == Front(nums)
         IN  IF rest = <<>> THEN StepErr(NotEnoughInput)
             ELSE LET first == Last(rest)
                      r == compute_result(second, first, x)
                  IN  IF r.ok THEN StepOk(Append(Front(rest), r.val))
                      ELSE StepErr(r.err)

\* mutant: a missing first operand is taken to be zero
OnOperatorToken_DefaultsFirst(nums, x) ==
    IF nums = <<>> THEN StepErr(NotEnoughInput)
    ELSE LET second == Last(nums)
             rest == Front(nums)
             first == IF rest = <<>> THEN Fin(1, 0, 1) ELSE Last(rest)
             r == compute_result(first, second, x)
         IN  IF r.ok THEN StepOk(Append(PopDiscard(rest), r.val))
             ELSE StepErr(r.err)

OnOperatorToken(nums, x) ==
    IF nums = <<>> THEN StepErr(NotEnoughInput)
    ELSE LET second == Last(nums)
             rest == Front(nums)
         IN  IF rest = <<>> THEN StepErr(NotEnoughInput)
             ELSE LET first == Last(rest)
                      r == compute_result(first, second, x)
                  IN  IF r.ok THEN StepOk(Append(Front(rest), r.val))
                      ELSE StepErr(r.err)

OnNumberToken(nums, x) ==
    IF ParsesAsF64(x) THEN StepOk(Append(nums, ParseF64(x)))
    ELSE StepErr(InvalidToken(x))

CalcToken(nums, x) ==
    IF IsOperatorToken(x) THEN OnOperatorToken(nums, x)
    ELSE OnNumberToken(nums, x)

\* mutant: the end of calculate insists on exactly one value
FinalPop_ExactlyOne(nums) ==
    IF Len(nums) # 1 THEN Err(NotEnoughInput) ELSE Ok(Last(nums))

\* let result = numbers.pop().ok_or("not enough input")?; Ok(result)
FinalPop(nums) ==
    IF nums = <<>> THEN Err(NotEnoughInput) ELSE Ok(Last(nums))

RECURSIVE CalcFrom(_, _, _)
CalcFrom(nums, q, i) ==
    IF i > Len(q) THEN FinalPop(nums)
    ELSE LET st == CalcToken(nums, q[i])
         IN  IF st.ok THEN CalcFrom(st.numbers, q, i + 1) ELSE Err(st.err)

calculate(q) == CalcFrom(<<>>, q, 1)

(***************************************************************************)
(* The explored calls.  A caller either converts an infix string and       *)
(* evaluates the queue it gets (entry = "infix", as main and the doc test  *)
(* do), or builds an RPNQueue itself, its field being public, and          *)
(* evaluates it (entry = "rpn").                                           *)
(***************************************************************************)
SeqsUpTo(S, n) == UNION {[1..k -> S] : k \in 0..n}

ScanAlphabet == {" ", "+", "*", "(", ")", ".", "1", "2", "x"}

ShortInputs == SeqsUpTo(ScanAlphabet, MaxLen)

Literals ==
    {<<"0">>, <<"2">>, <<"3">>, <<"4">>, <<"1", "0">>, <<"1", ".", "5">>}

\* "a op b"
Binary(a, op, b) == a \o <<" ">> \o op \o <<" ">> \o b

\* "a op1 b op2 c"
Chain(a, op1, b, op2, c) == Binary(a, op1, b) \o <<" ">> \o op2 \o <<" ">> \o c

\* "a op1 (b op2 c)"
Grouped(a, op1, b, op2, c) ==
    a \o <<" ">> \o op1 \o <<" ", "(">> \o Binary(b, op2, c) \o <<")">>

BinaryInputs ==
    {Binary(a, op, b) : a \in Literals, op \in OperatorTokens, b \in Literals}

ChainInputs ==
    {Chain(t[1], t[2], t[3], t[4], t[5]) :
        t \in Literals \X OperatorTokens \X Literals \X OperatorTokens \X Literals}

GroupedInputs ==
    {Grouped(t[1], t[2], t[3], t[4], t[5]) :
        t \in Literals \X OperatorTokens \X Literals \X OperatorTokens \X Literals}

\* "1.0 + 3 - (4 / 5)", the doc tests' input, and "1+3-(4/5)"
DocExample ==
    <<"1", ".", "0", " ", "+", " ", "3", " ", "-", " ",
      "(", "4", " ", "/", " ", "5", ")">>

DocExampleDense == <<"1", "+", "3", "-", "(", "4", "/", "5", ")">>

\* "3 + x" and "1..2 + 1 "
ExampleInvalidChar == <<"3", " ", "+", " ", "x">>

ExampleBadLiteral == <<"1", ".", ".", "2", " ", "+", " ", "1", " ">>

ExampleInputs ==
    {DocExample, DocExampleDense, ExampleInvalidChar, ExampleBadLiteral}

\* the same expressions as io::stdin().read_line hands them over, "\n" included
Line(s) == s \o <<"\n">>

LineInputs == {Line(s) : s \in BinaryInputs \cup ChainInputs}

InfixInputs ==
    ShortInputs \cup BinaryInputs \cup ChainInputs \cup GroupedInputs
        \cup ExampleInputs \cup LineInputs

TokenAlphabet ==
    {<<"0">>, <<"1">>, <<"2">>, <<"1", ".", "5">>, <<".">>, <<"1", ".", ".", "2">>,
     <<"(">>, <<"+">>, <<"-">>, <<"*">>, <<"/">>}

TokenSeqs == SeqsUpTo(TokenAlphabet, MaxTokens)

\* [5, 3, "-"] and [8, 2, "/"]
ExampleTokenSeqs ==
    {<<<<"5">>, <<"3">>, <<"-">>>>, <<<<"8">>, <<"2">>, <<"/">>>>}

\* the symbols handed to compute_result directly: the four operators, the
\* unit test's "o", and other strings
OpSymbols == OperatorTokens \cup {<<"o">>, <<"(">>, <<"+", "+">>, <<>>}

NoCall == [called |-> FALSE, input |-> <<>>, rpn |-> [ok |-> FALSE, queue |-> <<>>, err |-> <<>>]]

NoQueue == [ok |-> FALSE, queue |-> <<>>, err |-> <<>>]

NoResult == [ok |-> FALSE, val |-> NoValue, err |-> <<>>]

Init ==
    /\ pos = 1
    /\ output = <<>>
    /\ stack = <<>>
    /\ buffer = <<>>
    /\ idx = 1
    /\ result = NoResult
    /\ line = <<>>
    /\ printed = <<>>
    /\ seen = NoCall
    /\ \/ /\ entry = "infix"
          /\ input \in InfixInputs
          /\ rpn = NoQueue
          /\ numbers = <<>>
          /\ pc = "scan"
       \/ /\ entry = "rpn"
          /\ input = <<>>
          /\ rpn \in {OkQueue(q) : q \in TokenSeqs \cup ExampleTokenSeqs}
          /\ numbers = <<>>
          /\ pc = "calc"
       \/ /\ entry = "compute"
          /\ input \in OpSymbols
          /\ rpn = NoQueue
          /\ numbers \in {<<ParseF64(a), ParseF64(b)>> : a \in Literals, b \in Literals}
          /\ pc = "compute"

(***************************************************************************)
(* from_infix_string, one action per arm of its match.                     *)
(***************************************************************************)
Locals == [output |-> output, stack |-> stack, buffer |-> buffer]

Scanning == pc = "scan" /\ pos <= Len(input)

Advance(c) ==
    /\ output' = c.output
    /\ stack' = c.stack
    /\ buffer' = c.buffer
    /\ pos' = pos + 1
    /\ UNCHANGED <<entry, input, rpn, numbers, idx, result, pc, host>>

ScanWhitespace ==
    /\ Scanning
    /\ IsWhitespace(input[pos])
    /\ Advance(OnWhitespace(Locals))

ScanOperator ==
    /\ Scanning
    /\ ~ IsWhitespace(input[pos])
    /\ IsOperatorChar(input[pos])
    /\ Advance(OnOperator(Locals, input[pos]))

ScanOpenParen ==
    /\ Scanning
    /\ input[pos] = "("
    /\ Advance(OnOpenParen(Locals, input[pos]))

ScanCloseParen ==
    /\ Scanning
    /\ input[pos] = ")"
    /\ Advance(OnCloseParen(Locals))

ScanLiteralChar ==
    /\ Scanning
    /\ IsLiteralChar(input[pos])
    /\ Advance(OnLiteralChar(Locals, input[pos]))

\* return Err(format!("Invalid token: {}", invalid))
ScanInvalid ==
    /\ Scanning
    /\ IsInvalidChar(input[pos])
    /\ rpn' = ErrQueue(InvalidToken(CharToString(input[pos])))
    /\ pc' = "done"
    /\ UNCHANGED <<entry, input, pos, output, stack, buffer, numbers, idx, result,
                    host>>

\* the end of the scan: drain the stack, Ok(output); the caller goes on to
\* calculate, which starts with a new operand stack at the first token
ScanEnd ==
    /\ pc = "scan"
    /\ pos > Len(input)
    /\ LET c == DrainStack(Locals)
       IN  /\ output' = c.output
           /\ stack' = c.stack
           /\ buffer' = c.buffer
           /\ rpn' = OkQueue(c.output)
    /\ numbers' = <<>>
    /\ idx' = 1
    /\ pc' = "calc"
    /\ UNCHANGED <<entry, input, pos, result, host>>

(***************************************************************************)
(* calculate, one action per arm of its match and one for its end.         *)
(***************************************************************************)
Calculating == pc = "calc" /\ idx <= Len(rpn.queue)

CalcApply(st) ==
    /\ IF st.ok
       THEN /\ numbers' = st.numbers
            /\ idx' = idx + 1
            /\ UNCHANGED <<result, pc>>
       ELSE /\ result' = Err(st.err)
            /\ pc' = "done"
            /\ UNCHANGED <<numbers, idx>>
    /\ UNCHANGED <<entry, input, pos, output, stack, buffer, rpn, host>>

CalcOperator ==
    /\ Calculating
    /\ IsOperatorToken(rpn.queue[idx])
    /\ CalcApply(OnOperatorToken(numbers, rpn.queue[idx]))

CalcNumber ==
    /\ Calculating
    /\ ~ IsOperatorToken(rpn.queue[idx])
    /\ CalcApply(OnNumberToken(numbers, rpn.queue[idx]))

CalcEnd ==
    /\ pc = "calc"
    /\ idx > Len(rpn.queue)
    /\ result' = FinalPop(numbers)
    /\ numbers' = PopDiscard(numbers)
    /\ pc' = "done"
    /\ UNCHANGED <<entry, input, pos, output, stack, buffer, rpn, idx, host>>

\* a direct call compute_result(first, second, op), as the unit test makes
ComputeCall ==
    /\ pc = "compute"
    /\ result' = compute_result(numbers[1], numbers[2], input)
    /\ pc' = "done"
    /\ UNCHANGED <<entry, input, pos, output, stack, buffer, rpn, numbers, idx,
                    host>>

Next ==
    \/ ScanWhitespace
    \/ ScanOperator
    \/ ScanOpenParen
    \/ ScanCloseParen
    \/ ScanLiteralChar
    \/ ScanInvalid
    \/ ScanEnd
    \/ CalcOperator
    \/ CalcNumber
    \/ CalcEnd
    \/ ComputeCall

Spec == Init /\ [][Next]_vars

(***************************************************************************)
(* main: the read-eval loop.  Each iteration clears the line buffer,       *)
(* prompts, reads a line into the buffer, converts it, and on success      *)
(* evaluates it; it prints the error or the queue and the result and       *)
(* starts over.  stdin delivers typed lines, each with its line end, or    *)
(* nothing at the end of the stream.                                       *)
(***************************************************************************)
LineAlphabet == {" ", "+", "(", ")", "1", "x"}

TypedLines == {Line(s) : s \in SeqsUpTo(LineAlphabet, MaxLine)} \cup {<<>>}

\* mutant: the line buffer is not cleared at the top of the loop
ClearBuffer_Keeps(b) == b

\* buffer.clear()
ClearBuffer(b) == <<>>

Prompt == <<"> ", <<>>>>

\* the println! calls of one iteration, each a pair of the text and the value
\* formatted into it
ReportOf(q, r) ==
    IF ~ q.ok THEN <<<<"", q.err>>>>
    ELSE IF ~ r.ok
         THEN <<<<"RPN Notation: ", q.queue>>, <<"Error: ", r.err>>>>
    ELSE <<<<"RPN Notation: ", q.queue>>, <<"Result: ", r.val>>>>

InitMain ==
    /\ entry = "infix"
    /\ input = <<>>
    /\ pos = 1
    /\ output = <<>>
    /\ stack = <<>>
    /\ buffer = <<>>
    /\ rpn = NoQueue
    /\ numbers = <<>>
    /\ idx = 1
    /\ result = NoResult
    /\ line = <<>>
    /\ printed = <<>>
    /\ seen = NoCall
    /\ pc = "read"

\* buffer.clear(); print!("> "); read_line(&mut buffer); and the call of
\* from_infix_string(&buffer), which creates its output, stack and buffer
MainRead ==
    /\ pc = "read"
    /\ \E typed \in TypedLines :
          /\ line' = typed
          /\ input' = ClearBuffer(input) \o typed
    /\ printed' = <<Prompt>>
    /\ output' = NewScan.output
    /\ stack' = NewScan.stack
    /\ buffer' = NewScan.buffer
    /\ pos' = 1
    /\ rpn' = NoQueue
    /\ result' = NoResult
    /\ pc' = "scan"
    /\ UNCHANGED <<entry, numbers, idx, seen>>

\* the println! calls and the continue / the end of the loop body; seen may
\* take this iteration's call of from_infix_string
MainReport ==
    /\ pc = "done"
    /\ printed' = printed \o ReportOf(rpn, result)
    /\ pc' = "read"
    /\ seen' \in {seen, [called |-> TRUE, input |-> input, rpn |-> rpn]}
    /\ UNCHANGED <<entry, input, pos, output, stack, buffer, rpn, numbers, idx,
                    result, line>>

NextMain ==
    \/ MainRead
    \/ ScanWhitespace
    \/ ScanOperator
    \/ ScanOpenParen
    \/ ScanCloseParen
    \/ ScanLiteralChar
    \/ ScanInvalid
    \/ ScanEnd
    \/ CalcOperator
    \/ CalcNumber
    \/ CalcEnd
    \/ MainReport

SpecMain == InitMain /\ [][NextMain]_vars

(***************************************************************************)
(* Vocabulary of the properties.                                           *)
(***************************************************************************)
Converted == entry = "infix" /\ pc \in {"calc", "done"}

Evaluated == pc = "done" /\ rpn.ok

\* the words of s, split at every single space
RECURSIVE SplitWords(_, _, _, _)
SplitWords(s, i, cur, acc) ==
    IF i > Len(s) THEN Append(acc, cur)
    ELSE IF s[i] = " " THEN SplitWords(s, i + 1, <<>>, Append(acc, cur))
    ELSE SplitWords(s, i + 1, Append(cur, s[i]), acc)

Words(s) == SplitWords(s, 1, <<>>, <<>>)

\* the value of "x op y" in native arithmetic
Apply(x, op, y) ==
    IF op = <<"+">> THEN FAdd(x, y)
    ELSE IF op = <<"-">> THEN FSub(x, y)
    ELSE IF op = <<"*">> THEN FMul(x, y)
    ELSE FDiv(x, y)

Num(lit) == ParseF64(lit)

SamePrecedence(op1, op2) ==
    \/ {op1, op2} \subseteq {<<"+">>, <<"-">>}
    \/ {op1, op2} \subseteq {<<"*">>, <<"/">>}

(***************************************************************************)
(* The step-wise machine and the functions from_infix_string and calculate *)
(* are the same computation.                                               *)
(***************************************************************************)
MachineAgrees ==
    /\ Converted => rpn = from_infix_string(input)
    /\ Evaluated => result = calculate(rpn.queue)

(***************************************************************************)
(* C1: for every operator op and literals a, b, converting "a op b"        *)
(* (single spaces, nothing after b) and calculating returns a op b, a      *)
(* value also when op is "/" and b is 0.                                   *)
(***************************************************************************)
C1_BinaryValue ==
    (pc = "done" /\ entry = "infix" /\ input \in BinaryInputs) =>
        LET w == Words(input)
        IN  result = Ok(Apply(Num(w[1]), w[2], Num(w[3])))

\* for comparison: the same expressions followed by a line end evaluate
\* to a op b
C1_BinaryValueOnLines ==
    (pc = "done" /\ entry = "infix"
        /\ input \in {Line(s) : s \in BinaryInputs}) =>
        LET w == Words(Front(input))
        IN  result = Ok(Apply(Num(w[1]), w[2], Num(w[3])))

(***************************************************************************)
(* C2: operators of equal precedence are evaluated left to right:          *)
(* "a op1 b op2 c" gives (a op1 b) op2 c when op1 and op2 have the same    *)
(* precedence; "10 - 2 - 3" gives 5.                                       *)
(***************************************************************************)
C2_LeftToRight ==
    (pc = "done" /\ entry = "infix" /\ input \in ChainInputs) =>
        LET w == Words(input)
        IN  SamePrecedence(w[2], w[4]) =>
                result = Ok(Apply(Apply(Num(w[1]), w[2], Num(w[3])), w[4], Num(w[5])))

\* the same claim on line-terminated input, where no literal is lost
C2_LeftToRightOnLines ==
    (pc = "done" /\ entry = "infix"
        /\ input \in {Line(s) : s \in ChainInputs}) =>
        LET w == Words(Front(input))
        IN  SamePrecedence(w[2], w[4]) =>
                result = Ok(Apply(Apply(Num(w[1]), w[2], Num(w[3])), w[4], Num(w[5])))

\* what the code computes on line-terminated input: a op1 (b op2 c)
C2_RightToLeftOnLines ==
    (pc = "done" /\ entry = "infix"
        /\ input \in {Line(s) : s \in ChainInputs}) =>
        LET w == Words(Front(input))
        IN  SamePrecedence(w[2], w[4]) =>
                result = Ok(Apply(Num(w[1]), w[2], Apply(Num(w[3]), w[4], Num(w[5]))))

(***************************************************************************)
(* C3: without parentheses * and / bind tighter than + and -:              *)
(* "a * b + c" gives (a*b)+c and "a + b * c" gives a+(b*c); "2 * 3 + 4"    *)
(* gives 10.                                                               *)
(***************************************************************************)
PrecedenceValue(w) ==
    IF Precedence(w[2]) > Precedence(w[4])
    THEN Apply(Apply(Num(w[1]), w[2], Num(w[3])), w[4], Num(w[5]))
    ELSE Apply(Num(w[1]), w[2], Apply(Num(w[3]), w[4], Num(w[5])))

C3_Precedence ==
    (pc = "done" /\ entry = "infix" /\ input \in ChainInputs) =>
        LET w == Words(input)
        IN  ~ SamePrecedence(w[2], w[4]) => result = Ok(PrecedenceValue(w))

\* the same claim on line-terminated input, where no literal is lost
C3_PrecedenceOnLines ==
    (pc = "done" /\ entry = "infix"
        /\ input \in {Line(s) : s \in ChainInputs}) =>
        LET w == Words(Front(input))
        IN  ~ SamePrecedence(w[2], w[4]) => result = Ok(PrecedenceValue(w))

(***************************************************************************)
(* C4: a parenthesised sub-expression is evaluated as a unit:              *)
(* "a op1 (b op2 c)" gives a op1 (b op2 c) for all operators;              *)
(* "2 * (3 + 4)" gives 14 and "1.0 + 3 - (4 / 5)" gives 3.2.               *)
(***************************************************************************)
C4_Grouping ==
    /\ (pc = "done" /\ entry = "infix" /\ input \in GroupedInputs) =>
          LET w == Words(input)
              b == Tail(w[3])
              c == Front(w[5])
          IN  result = Ok(Apply(Num(w[1]), w[2], Apply(Num(b), w[4], Num(c))))
    /\ (pc = "done" /\ entry = "infix" /\ input = DocExample) =>
          result = Ok(Fin(1, 16, 5))

C4_Witness ==
    /\ pc = "done"
    /\ entry = "infix"
    /\ input = Grouped(<<"2">>, <<"*">>, <<"3">>, <<"+">>, <<"4">>)
    /\ result = Ok(Fin(1, 14, 1))

(***************************************************************************)
(* C5: whenever from_infix_string succeeds, also on unbalanced             *)
(* parentheses, the returned token sequence contains neither "(" nor ")".  *)
(***************************************************************************)
C5_NoGroupingSymbols ==
    (Converted /\ rpn.ok) =>
        \A i \in 1..Len(rpn.queue) : rpn.queue[i] \notin {<<"(">>, <<")">>}

\* for comparison: ")" is never returned, and "(" is not returned when
\* every "(" of the input is closed by a later ")"
RECURSIVE OpenAtEnd(_, _, _)
OpenAtEnd(s, i, open) ==
    IF i > Len(s) THEN open
    ELSE IF s[i] = "(" THEN OpenAtEnd(s, i + 1, open + 1)
    ELSE IF s[i] = ")" THEN OpenAtEnd(s, i + 1, IF open > 0 THEN open - 1 ELSE 0)
    ELSE OpenAtEnd(s, i + 1, open)

C5_NoGroupingSymbolsWhenClosed ==
    (Converted /\ rpn.ok) =>
        \A i \in 1..Len(rpn.queue) :
            /\ rpn.queue[i] # <<")">>
            /\ OpenAtEnd(input, 1, 0) = 0 => rpn.queue[i] # <<"(">>

(***************************************************************************)
(* C6: conversion is whitespace-insensitive: two inputs that are identical *)
(* once whitespace is removed, and in which no whitespace lies between two *)
(* digit/decimal-point characters, convert to the same outcome.  Each      *)
(* input is compared with its whitespace-free form.                        *)
(***************************************************************************)
ClaimWhitespace == {" ", "\t", "\n"}

ClaimLiteralChars ==
    {".", "0", "1", "2", "3", "4", "5", "6", "7", "8", "9"}

RECURSIVE StripWhitespace(_)
StripWhitespace(s) ==
    IF s = <<>> THEN <<>>
    ELSE IF Head(s) \in ClaimWhitespace THEN StripWhitespace(Tail(s))
    ELSE <<Head(s)>> \o StripWhitespace(Tail(s))

\* some run of whitespace has a digit or decimal point right before it and
\* right after it
SplitsLiteral(s) ==
    \E i, j \in 1..Len(s) :
        /\ i + 1 < j
        /\ s[i] \in ClaimLiteralChars
        /\ s[j] \in ClaimLiteralChars
        /\ \A k \in (i + 1)..(j - 1) : s[k] \in ClaimWhitespace

C6_WhitespaceInsensitive ==
    (Converted /\ ~ SplitsLiteral(input)) =>
        rpn = from_infix_string(StripWhitespace(input))

\* the two inputs the claim names do convert to the same value
C6_DocExamplesAgree ==
    /\ calculate(from_infix_string(DocExample).queue) = Ok(Fin(1, 16, 5))
    /\ calculate(from_infix_string(DocExampleDense).queue) = Ok(Fin(1, 16, 5))
    /\ StripWhitespace(DocExample) = <<"1", ".", "0">> \o Tail(DocExampleDense)

(***************************************************************************)
(* C7: an input holding a character that is not whitespace, a digit, ".",  *)
(* an operator or a parenthesis makes from_infix_string return an error    *)
(* that carries the first such character, and no token sequence, whatever  *)
(* precedes or follows it; "3 + x" fails naming "x".                       *)
(***************************************************************************)
ClaimAllowedChars ==
    ClaimWhitespace \cup ClaimLiteralChars \cup {"+", "-", "*", "/", "(", ")"}

HasForeignChar(s) == \E i \in 1..Len(s) : s[i] \notin ClaimAllowedChars

FirstForeignIndex(s) ==
    CHOOSE i \in 1..Len(s) :
        /\ s[i] \notin ClaimAllowedChars
        /\ \A j \in 1..(i - 1) : s[j] \in ClaimAllowedChars

C7_InvalidCharacter ==
    (entry = "infix" /\ HasForeignChar(input)) =>
        LET at == FirstForeignIndex(input)
        IN  /\ pc \in {"scan", "done"}
            /\ pc = "scan" => pos <= at
            /\ pc = "done" =>
                  /\ pos = at
                  /\ rpn = ErrQueue(<<"Invalid token: ", <<input[at]>>>>)
                  /\ result = NoResult

C7_Witness ==
    /\ pc = "done"
    /\ input = ExampleInvalidChar
    /\ ~ rpn.ok
    /\ rpn.err = <<"Invalid token: ", <<"x">>>>

(***************************************************************************)
(* C8: on a token sequence of valid number tokens and operators, calculate *)
(* fails with "not enough input" exactly when an operator is reached with  *)
(* fewer than two values on the operand stack or the sequence ends with an *)
(* empty stack, and returns a value in every other case; it fails on the   *)
(* empty sequence and on the sequence converted from "+".                  *)
(***************************************************************************)
WellFormedTokens(q) ==
    \A i \in 1..Len(q) : q[i] \in OperatorTokens \/ ParsesAsF64(q[i])

\* the operand stack's height is too small somewhere: at an operator (fewer
\* than two) or at the end (none)
RECURSIVE Underflows(_, _, _)
Underflows(q, i, height) ==
    IF i > Len(q) THEN height = 0
    ELSE IF q[i] \in OperatorTokens
         THEN height < 2 \/ Underflows(q, i + 1, height - 1)
    ELSE Underflows(q, i + 1, height + 1)

C8_InsufficientOperands ==
    (Evaluated /\ WellFormedTokens(rpn.queue)) =>
        /\ Underflows(rpn.queue, 1, 0) <=> result = Err(<<"not enough input">>)
        /\ ~ Underflows(rpn.queue, 1, 0) <=> (result.ok /\ result.val.k # "none")
        /\ rpn.queue = <<>> => ~ result.ok
        /\ input = <<"+">> => ~ result.ok

C8_Witness ==
    /\ Evaluated
    /\ entry = "infix"
    /\ input = <<"+">>
    /\ rpn.queue = <<<<"+">>>>
    /\ result = Err(<<"not enough input">>)

(***************************************************************************)
(* C9: validation of literals is deferred to evaluation: from_infix_string *)
(* succeeds on any run of digits and decimal points ("1..2", ".") and      *)
(* emits it verbatim as one token, and calculate fails on a non-operator   *)
(* token that is no valid decimal number ("1..2", ".", a leftover "("),    *)
(* with an error naming that token.                                        *)
(***************************************************************************)
IsLiteralRun(s) == s # <<>> /\ \A i \in 1..Len(s) : s[i] \in ClaimLiteralChars

\* the first token that is neither an operator nor a number, if calculate
\* gets that far
RECURSIVE FirstBadToken(_, _)
FirstBadToken(q, i) ==
    IF i > Len(q) THEN 0
    ELSE IF q[i] \notin OperatorTokens /\ ~ ParsesAsF64(q[i]) THEN i
    ELSE FirstBadToken(q, i + 1)

C9_EvaluationRejectsBadToken ==
    (Evaluated /\ FirstBadToken(rpn.queue, 1) > 0) =>
        LET bad == FirstBadToken(rpn.queue, 1)
        IN  /\ ~ result.ok
            /\ ~ Underflows(SubSeq(rpn.queue, 1, bad - 1) \o <<<<"0">>>>, 1, 0) =>
                  result = Err(<<"Invalid token: ", rpn.queue[bad]>>)

C9_DeferredValidation ==
    /\ (Converted /\ IsLiteralRun(input)) => rpn = OkQueue(<<input>>)
    /\ C9_EvaluationRejectsBadToken

\* for comparison with the first half: a run followed by whitespace is
\* emitted verbatim as one token
C9_TerminatedRunVerbatim ==
    (Converted /\ input # <<>> /\ IsLiteralRun(Front(input))
        /\ Last(input) \in ClaimWhitespace) =>
        rpn = OkQueue(<<Front(input)>>)

(***************************************************************************)
(* C10: whenever calculate returns a value, the operand stack holds        *)
(* exactly one value right before that value is popped, so nothing is left *)
(* on it after the pop.                                                    *)
(***************************************************************************)
C10_ExactlyOneValue ==
    /\ (pc = "calc" /\ idx > Len(rpn.queue) /\ FinalPop(numbers).ok) =>
          Len(numbers) = 1
    /\ (Evaluated /\ result.ok) => numbers = <<>>

(***************************************************************************)
(* C11: from_infix_string is deterministic and history-free: in any        *)
(* sequence of calls, two calls with the same input return the same        *)
(* outcome (the same token sequence or the same error), whatever was       *)
(* converted or evaluated before.                                          *)
(***************************************************************************)
C11_SameInputSameOutcome ==
    (Converted /\ seen.called /\ seen.input = input) => rpn = seen.rpn

C11_Witness ==
    /\ Converted
    /\ seen.called
    /\ seen.input = input
    /\ input = <<"1", "+", "\n">>
    /\ rpn = OkQueue(<<<<"1">>, <<"+">>>>)
    /\ rpn = seen.rpn

(***************************************************************************)
(* C12: in the read-eval loop an error from from_infix_string or from      *)
(* calculate never ends the loop and never changes the outcome of later    *)
(* lines: the loop reports, clears its line buffer and reads the next      *)
(* line, and each line's outcome depends only on that line's text.         *)
(***************************************************************************)
OutcomeOf(text) ==
    LET q == from_infix_string(text)
    IN  ReportOf(q, IF q.ok THEN calculate(q.queue) ELSE NoResult)

C12_ErrorsStayInTheirLine ==
    /\ pc \in {"read", "scan", "calc", "done"}
    /\ pc # "read" => input = line
    /\ pc = "done" =>
          /\ rpn = from_infix_string(line)
          /\ rpn.ok => result = calculate(rpn.queue)
          /\ ~ rpn.ok => result = NoResult
          /\ ENABLED MainReport
    /\ pc = "read" =>
          /\ ENABLED MainRead
          /\ printed # <<>> => printed = <<Prompt>> \o OutcomeOf(line)

\* a line is evaluated to a value after an earlier line failed
C12_Witness ==
    /\ pc = "read"
    /\ seen.called
    /\ ~ seen.rpn.ok
    /\ line = <<"1", "\n">>
    /\ printed = <<Prompt, <<"RPN Notation: ", <<<<"1">>>>>>,
                   <<"Result: ", Fin(1, 1, 1)>>>>

(***************************************************************************)
(* C13: at an operator calculate pops the right-hand operand first and the *)
(* left-hand operand second and pushes left OP right; every token sequence *)
(* [a, b, op] evaluates to a op b ([5, 3, "-"] to 2, [8, 2, "/"] to 4);    *)
(* compute_result returns first op second for the four operators and an    *)
(* error for any other symbol.                                             *)
(***************************************************************************)
IsOperandPair(q) ==
    Len(q) = 3 /\ ParsesAsF64(q[1]) /\ ParsesAsF64(q[2]) /\ q[3] \in OperatorTokens

C13_ResultOrder ==
    /\ (Evaluated /\ IsOperandPair(rpn.queue)) =>
          result = Ok(Apply(Num(rpn.queue[1]), rpn.queue[3], Num(rpn.queue[2])))
    /\ (Evaluated /\ rpn.queue = <<<<"5">>, <<"3">>, <<"-">>>>) =>
          result = Ok(Fin(1, 2, 1))
    /\ (Evaluated /\ rpn.queue = <<<<"8">>, <<"2">>, <<"/">>>>) =>
          result = Ok(Fin(1, 4, 1))
    /\ (entry = "compute" /\ pc = "done") =>
          IF input \in {<<"+">>, <<"-">>, <<"*">>, <<"/">>}
          THEN result = Ok(Apply(numbers[1], input, numbers[2]))
          ELSE ~ result.ok /\ result.err = <<"invalid operator: ", input>>

C13_OperandOrder ==
    [][ /\ (/\ pc = "calc"
            /\ idx <= Len(rpn.queue)
            /\ rpn.queue[idx] \in {<<"+">>, <<"-">>, <<"*">>, <<"/">>}
            /\ Len(numbers) >= 2)
           => LET n == Len(numbers)
              IN  /\ pc' = "calc"
                  /\ idx' = idx + 1
                  /\ numbers' = Append(SubSeq(numbers, 1, n - 2),
                                       Apply(numbers[n - 1], rpn.queue[idx],
                                             numbers[n]))
        /\ C13_ResultOrder' ]_vars

C13_Witness ==
    /\ Evaluated
    /\ entry = "rpn"
    /\ rpn.queue = <<<<"5">>, <<"3">>, <<"-">>>>
    /\ result = Ok(Fin(1, 2, 1))

(***************************************************************************)
(* C14: when from_infix_string scans an operator it moves to the output    *)
(* exactly the maximal run of stack-top operators whose precedence is      *)
(* strictly greater than the incoming one's, stopping at the first         *)
(* operator of equal or lower precedence or at the first "(", and then     *)
(* pushes the incoming operator; a "(" and every element below it are not  *)
(* moved.                                                                  *)
(***************************************************************************)
ClaimPrecedence(t) == IF t \in {<<"*">>, <<"/">>} THEN 2 ELSE 1

Reversed(s) == [i \in 1..Len(s) |-> s[Len(s) + 1 - i]]

Flushed == IF buffer # <<>> THEN Append(output, buffer) ELSE output

C14_OperatorPopsTighterRun ==
    [][ (/\ pc = "scan"
         /\ pos <= Len(input)
         /\ input[pos] \in {"+", "-", "*", "/"})
        => LET op == <<input[pos]>>
               n == Len(stack)
               k == n + 1 - Len(stack')
           IN  /\ pc' = "scan"
               /\ pos' = pos + 1
               /\ buffer' = <<>>
               /\ k \in 0..n
               /\ stack' = Append(SubSeq(stack, 1, n - k), op)
               /\ output' = Flushed \o Reversed(SubSeq(stack, n - k + 1, n))
               /\ \A i \in (n - k + 1)..n :
                     /\ stack[i] \in OperatorTokens
                     /\ ClaimPrecedence(stack[i]) > ClaimPrecedence(op)
               /\ k < n =>
                     \/ stack[n - k] = <<"(">>
                     \/ ClaimPrecedence(stack[n - k]) <= ClaimPrecedence(op)
               /\ \A i \in 1..n :
                     stack[i] = <<"(">> => SubSeq(stack', 1, i) = SubSeq(stack, 1, i)
      ]_vars

\* "(**+" scanned: "+" has moved both "*" and has stopped at the "("
C14_Witness ==
    /\ entry = "infix"
    /\ pc = "scan"
    /\ input = <<"(", "*", "*", "+">>
    /\ pos = 5
    /\ stack = <<<<"(">>, <<"+">>>>
    /\ output = <<<<"*">>, <<"*">>>>

(***************************************************************************)
(* C15: a ")" with no "(" on the operator stack does not make              *)
(* from_infix_string fail: it moves every operator of the stack to the     *)
(* output in pop order, leaves the stack empty, and the scan goes on with  *)
(* the next character; on an empty stack it only flushes a pending         *)
(* literal.                                                                *)
(***************************************************************************)
C15_UnmatchedCloseParen ==
    [][ (/\ pc = "scan"
         /\ pos <= Len(input)
         /\ input[pos] = ")"
         /\ \A i \in 1..Len(stack) : stack[i] # <<"(">>)
        => /\ pc' = "scan"
           /\ pos' = pos + 1
           /\ rpn' = rpn
           /\ stack' = <<>>
           /\ buffer' = <<>>
           /\ output' = Flushed \o Reversed(stack)
           /\ stack = <<>> => output' = Flushed
      ]_vars

\* "1+*)" scanned: both operators are in the output, "*" first
C15_Witness ==
    /\ entry = "infix"
    /\ pc = "scan"
    /\ input = <<"1", "+", "*", ")">>
    /\ pos = 5
    /\ stack = <<>>
    /\ output = <<<<"1">>, <<"*">>, <<"+">>>>

(***************************************************************************)
(* C16: when a token sequence of valid numbers and operators leaves        *)
(* k >= 2 values on the operand stack, calculate does not fail: it returns *)
(* the value on top (the one pushed last) and ignores the k - 1 below.     *)
(***************************************************************************)
\* the height of the operand stack after the tokens from i on
RECURSIVE HeightAfter(_, _, _)
HeightAfter(q, i, height) ==
    IF i > Len(q) THEN height
    ELSE IF q[i] \in OperatorTokens THEN HeightAfter(q, i + 1, height - 1)
    ELSE HeightAfter(q, i + 1, height + 1)

C16_ExtraValuesIgnored ==
    [][ (/\ pc = "calc"
         /\ idx > Len(rpn.queue)
         /\ WellFormedTokens(rpn.queue)
         /\ HeightAfter(rpn.queue, 1, 0) >= 2)
        => /\ Len(numbers) = HeightAfter(rpn.queue, 1, 0)
           /\ pc' = "done"
           /\ result' = Ok(numbers[Len(numbers)])
           /\ numbers' = SubSeq(numbers, 1, Len(numbers) - 1)
      ]_vars

C16_Witness ==
    /\ Evaluated
    /\ rpn.queue = <<<<"1">>, <<"2">>>>
    /\ result = Ok(Fin(1, 2, 1))
    /\ numbers = <<Fin(1, 1, 1)>>

(***************************************************************************)
(* C17: whenever from_infix_string succeeds, the numeric tokens of its     *)
(* output are exactly the maximal runs of digit/decimal-point characters   *)
(* of the input, each once and in input order, a literal that ends the     *)
(* input included.                                                         *)
(***************************************************************************)
RECURSIVE NumericTokens(_)
NumericTokens(q) ==
    IF q = <<>> THEN <<>>
    ELSE IF Head(q) \in OperatorTokens \cup {<<"(">>, <<")">>}
         THEN NumericTokens(Tail(q))
    ELSE <<Head(q)>> \o NumericTokens(Tail(q))

RECURSIVE LiteralRuns(_, _, _, _)
LiteralRuns(s, i, run, acc) ==
    IF i > Len(s) THEN (IF run # <<>> THEN Append(acc, run) ELSE acc)
    ELSE IF s[i] \in ClaimLiteralChars
         THEN LiteralRuns(s, i + 1, Append(run, s[i]), acc)
    ELSE LiteralRuns(s, i + 1, <<>>, IF run # <<>> THEN Append(acc, run) ELSE acc)

C17_LiteralRunsEmitted ==
    (Converted /\ rpn.ok) =>
        NumericTokens(rpn.queue) = LiteralRuns(input, 1, <<>>, <<>>)

\* for comparison: the runs are emitted when every run is followed by
\* whitespace, an operator or ")"
EveryRunTerminated(s) ==
    \A i \in 1..Len(s) :
        s[i] \in ClaimLiteralChars =>
            /\ i < Len(s)
            /\ s[i + 1] # "("

C17_TerminatedRunsEmitted ==
    (Converted /\ rpn.ok /\ EveryRunTerminated(input)) =>
        NumericTokens(rpn.queue) = LiteralRuns(input, 1, <<>>, <<>>)

(***************************************************************************)
(* C18: conversion neither loses nor duplicates operators: at every step   *)
(* of the scan, for each of + - * /, the occurrences in the output plus    *)
(* those on the operator stack are the occurrences scanned so far, so a    *)
(* returned token sequence holds each operator as often as the input.      *)
(***************************************************************************)
RECURSIVE Occurrences(_, _)
Occurrences(s, x) ==
    IF s = <<>> THEN 0
    ELSE (IF Head(s) = x THEN 1 ELSE 0) + Occurrences(Tail(s), x)

C18_OperatorsConserved ==
    \A ch \in {"+", "-", "*", "/"} :
        /\ (entry = "infix" /\ pc = "scan") =>
              Occurrences(output, <<ch>>) + Occurrences(stack, <<ch>>)
                  = Occurrences(SubSeq(input, 1, pos - 1), ch)
        /\ (Converted /\ rpn.ok) =>
              Occurrences(rpn.queue, <<ch>>) = Occurrences(input, ch)

\* "(+)+" converted: the ")" has discarded the "(" and no operator
C18_Witness ==
    /\ Converted
    /\ input = <<"(", "+", ")", "+">>
    /\ rpn = OkQueue(<<<<"+">>, <<"+">>>>)

====
